---- MODULE Spec2Model ----
(***************************************************************************)
(* Model of email_relay.py (class EmailRelay): the PDF merge policy        *)
(* merge_pdfs, the per-message relay relay_email and the batch loop run.   *)
(*                                                                         *)
(* Strings that the code inspects (filenames, the invoice marker) are      *)
(* sequences of ASCII code points, so that lower(), endswith(), the        *)
(* substring test and the ordering used by sort are computed, not assumed. *)
(* None and the empty string are both the empty sequence: the code only    *)
(* ever tests filenames and the marker for truthiness.                     *)
(***************************************************************************)
EXTENDS Integers, Sequences, FiniteSets, TLC

VARIABLES simulate, invoice_string, pc, emails, idx, attempted, last, files,
          cleaned, merge_call

vars == <<simulate, invoice_string, pc, emails, idx, attempted, last, files,
          cleaned, merge_call>>

\* ------------------------------------------------------------------ bounds
\* Largest number of children of the root of one message.
MaxParts == 3
\* Largest number of children over the messages of a batch of several messages.
MaxBatchParts == 2
\* Longest filename list handed to merge_pdfs when it is called on its own.
MaxNames == 3

\* ----------------------------------------------------------------- strings
\* str.lower() on one ASCII code point.
LowerChar(c) == IF c \in 65..90 THEN c + 32 ELSE c

\* str.lower()
lower(s) == [i \in 1..Len(s) |-> LowerChar(s[i])]

\* str.endswith(suffix)
endswith(s, suffix) ==
    /\ Len(s) >= Len(suffix)
    /\ SubSeq(s, Len(s) - Len(suffix) + 1, Len(s)) = suffix

\* Python's `sub in s` on strings.
contains(sub, s) ==
    \E i \in 0..(Len(s) - Len(sub)) : SubSeq(s, i + 1, i + Len(sub)) = sub

\* Python's str `<`: code point lexicographic order, a proper prefix is smaller.
StrLess(a, b) ==
    \E k \in 1..(Len(a) + 1) :
        /\ k <= Len(b)
        /\ SubSeq(a, 1, k - 1) = SubSeq(b, 1, k - 1)
        /\ (k = Len(a) + 1 \/ a[k] < b[k])

\* The literals of the code.
DotPdf == <<46, 112, 100, 102>>                            \* '.pdf'
AttachmentPdf ==                                           \* 'attachment.pdf'
    <<97, 116, 116, 97, 99, 104, 109, 101, 110, 116, 46, 112, 100, 102>>

\* Filenames used to build inputs.
NameA    == <<97, 46, 112, 100, 102>>                      \* 'a.pdf'
NameBUp  == <<66, 46, 80, 68, 70>>                         \* 'B.PDF'
NameC    == <<99, 46, 112, 100, 102>>                      \* 'c.pdf'
NameD    == <<100, 46, 112, 100, 102>>                     \* 'd.pdf'
NameInv1 == <<105, 110, 118, 49, 46, 112, 100, 102>>       \* 'inv1.pdf'
NameInv2 == <<105, 110, 118, 50, 46, 112, 100, 102>>       \* 'inv2.pdf'
NameFwd  == <<102, 119, 100, 46, 112, 100, 102>>           \* 'fwd.pdf'
NameTxt  == <<110, 46, 116, 120, 116>>                     \* 'n.txt'
NoName   == <<>>                                           \* None

\* Values of INVOICE_STRING: unset ('' by default) or 'inv'.
Markers == {<<>>, <<105, 110, 118>>}

\* ------------------------------------------------------------------ sorting
\* list.sort(key=...) / sorted(..., key=...) on a list of indices: a stable
\* sort, so an element's place is the number of elements with a smaller key,
\* plus those with an equal key that stand before it.
SortedByKey(s, key) ==
    LET Before(q, p) == \/ StrLess(key[s[q]], key[s[p]])
                        \/ (key[s[q]] = key[s[p]] /\ q < p)
        Rank(p) == 1 + Cardinality({q \in 1..Len(s) : Before(q, p)})
    IN  [r \in 1..Len(s) |-> s[CHOOSE p \in 1..Len(s) : Rank(p) = r]]

\* range(n) as the 1-based positions of a list.
Range(n) == [i \in 1..n |-> i]

\* --------------------------------------------------------------- merge_pdfs
\* What one invocation of merge_pdfs did: its arguments, whether it got as
\* far as creating a PdfMerger and then the order (pdf_order) in which it
\* hands the sources to merger.append, whether an exception was caught
\* (line 180), and whether a path was returned (merged) and under which
\* filename.
NoCall == [invoked |-> FALSE, pdf_paths |-> <<>>, pdf_filenames |-> <<>>,
           merger_created |-> FALSE, pdf_order |-> <<>>, error |-> FALSE,
           merged |-> FALSE, output_filename |-> NoName]

\* The indices whose filename contains the (non-empty) invoice marker.
InvoicePdfIndices(pdf_filenames, marker) ==
    LET Match(i) == marker # <<>> /\ contains(marker, pdf_filenames[i])
    IN  SelectSeq(Range(Len(pdf_filenames)), Match)

\* The order in which the sources are handed to the merger (lines 143-158).
PdfOrderMutNoInvoiceFirst(pdf_paths, pdf_filenames, marker) ==
    LET sorted_indices == SortedByKey(Range(Len(pdf_filenames)), pdf_filenames)
    IN  [k \in 1..Len(sorted_indices) |-> pdf_paths[sorted_indices[k]]]

PdfOrderMutUnsorted(pdf_paths, pdf_filenames, marker) ==
    LET inv == InvoicePdfIndices(pdf_filenames, marker)
    IN  IF inv # <<>>
        THEN LET Other(i) == i # inv[1]
                 other_pdf_indices ==
                     SortedByKey(SelectSeq(Range(Len(pdf_paths)), Other), pdf_filenames)
             IN  <<pdf_paths[inv[1]]>> \o
                 [k \in 1..Len(other_pdf_indices) |-> pdf_paths[other_pdf_indices[k]]]
        ELSE pdf_paths

PdfOrder(pdf_paths, pdf_filenames, marker) ==
    LET inv == InvoicePdfIndices(pdf_filenames, marker)
    IN  IF inv # <<>>
        THEN LET Other(i) == i # inv[1]
                 other_pdf_indices ==
                     SortedByKey(SelectSeq(Range(Len(pdf_paths)), Other), pdf_filenames)
             IN  <<pdf_paths[inv[1]]>> \o
                 [k \in 1..Len(other_pdf_indices) |-> pdf_paths[other_pdf_indices[k]]]
        ELSE LET sorted_indices ==
                     SortedByKey(Range(Len(pdf_filenames)), pdf_filenames)
             IN  [k \in 1..Len(sorted_indices) |-> pdf_paths[sorted_indices[k]]]

\* The filename the merged PDF is written under.
OutputFilename(pdf_filenames, marker) ==
    LET inv == InvoicePdfIndices(pdf_filenames, marker)
    IN  IF inv # <<>>
        THEN pdf_filenames[inv[1]]
        ELSE pdf_filenames[SortedByKey(Range(Len(pdf_filenames)), pdf_filenames)[1]]

\* Does merge_pdfs return None before it creates a merger?
SkipsMergingMutAmbiguousMerged(pdf_paths, pdf_filenames, marker) ==
    Len(pdf_paths) <= 1

SkipsMerging(pdf_paths, pdf_filenames, marker) ==
    \/ Len(pdf_paths) <= 1
    \/ (marker # <<>> /\ Len(InvoicePdfIndices(pdf_filenames, marker)) > 1)

\* merge_pdfs(pdf_paths, pdf_filenames).  mergerRaises is what the PDF library
\* does: whether one of merger.append (line 164) or merger.write (line 175)
\* raises.  Any exception is caught and None is returned.
merge_pdfs(pdf_paths, pdf_filenames, marker, mergerRaises) ==
    LET call == [NoCall EXCEPT !.invoked = TRUE, !.pdf_paths = pdf_paths,
                               !.pdf_filenames = pdf_filenames]
    IN  IF SkipsMerging(pdf_paths, pdf_filenames, marker)
        THEN call
        ELSE LET tried == [call EXCEPT
                             !.merger_created = TRUE,
                             !.pdf_order = PdfOrder(pdf_paths, pdf_filenames, marker)]
             IN  IF mergerRaises
                 THEN [tried EXCEPT !.error = TRUE]
                 ELSE [tried EXCEPT !.merged = TRUE,
                         !.output_filename = OutputFilename(pdf_filenames, marker)]

\* ---------------------------------------------------------------- messages
\* A message is the sequence of its MIME parts in walk() order.  A part has
\* its content type, whether it carries a Content-Disposition header, what
\* get_filename() gives (NoName for None) and its decoded content.
Part(mt, st, disp, fn, content) ==
    [maintype |-> mt, subtype |-> st, disp |-> disp, filename |-> fn,
     content |-> content]

\* The parts messages are built from.  A message in the state is the
\* sequence of the numbers of its parts in this table.
PartTable ==
    << Part("multipart", "mixed", FALSE, NoName, ""),
       Part("text", "plain", FALSE, NoName, "forwarded body"),
       Part("text", "plain", FALSE, NoName, "plain body"),
       Part("text", "html", FALSE, NoName, "<p>html body</p>"),
       Part("application", "pdf", TRUE, NameA, "%PDF a"),
       Part("application", "pdf", TRUE, NameBUp, "%PDF B"),
       Part("application", "pdf", TRUE, NameInv1, "%PDF inv1"),
       Part("application", "pdf", TRUE, NameInv2, "%PDF inv2"),
       Part("application", "octet-stream", TRUE, NameC, "%PDF c"),
       Part("application", "pdf", FALSE, NameD, "%PDF d"),
       Part("application", "pdf", TRUE, NoName, "%PDF unnamed"),
       Part("message", "rfc822", TRUE, NameFwd, "") >>

\* The root of a multipart message, which walk() yields first, and the
\* message enclosed in a message/rfc822 part, which walk() descends into.
RootPart == CHOOSE k \in 1..Len(PartTable) : PartTable[k].maintype = "multipart"

InnerPart == CHOOSE k \in 1..Len(PartTable) : PartTable[k].content = "forwarded body"

\* The parts that can be children of the root.
PartPool == (1..Len(PartTable)) \ {RootPart, InnerPart}

\* The parts of a message, in walk() order.
Parts(msg) == [i \in 1..Len(msg) |-> PartTable[msg[i]]]

\* Message.is_multipart(): the payload is a list of sub-messages.  The parser
\* builds such a payload for multipart/* and for message/rfc822 parts.
is_multipart(part) == part.maintype \in {"multipart", "message"}

\* part.get_payload(decode=True): None for a part whose payload is a list,
\* the decoded bytes otherwise.
None == [none |-> TRUE, bytes |-> ""]

get_payload(part) ==
    IF is_multipart(part) THEN None ELSE [none |-> FALSE, bytes |-> part.content]

\* ------------------------------------------------------------- relay_email
\* The test of the extraction loop (lines 218-224).
IsCandidate(part) ==
    /\ part.maintype # "multipart"
    /\ part.disp
    /\ part.filename # NoName
    /\ endswith(lower(part.filename), DotPdf)

\* The test of the materialisation and attachment loops (lines 262, 292).
IsPdfPart(part) == part.maintype = "application" /\ part.subtype = "pdf"

\* Positions of the parts the extraction loop collects.
Candidates(m) ==
    LET Test(i) == IsCandidate(m[i]) IN SelectSeq(Range(Len(m)), Test)

\* pdf_attachments: what line 250 appends for each of them.
PdfAttachments(m) ==
    LET c == Candidates(m) IN [k \in 1..Len(c) |-> get_payload(m[c[k]])]

\* In simulation mode line 244 writes the payload to a file: f.write(None)
\* raises TypeError.
ExtractionRaises(m, sim) ==
    sim /\ \E k \in 1..Len(Candidates(m)) : get_payload(m[Candidates(m)[k]]).none

\* Positions of the parts the materialisation loop writes to temporary files.
PdfSources(m) ==
    LET Test(i) == IsPdfPart(m[i]) /\ m[i].filename # NoName
    IN  SelectSeq(Range(Len(m)), Test)

\* Positions of the parts the attachment loop attaches one by one.
PdfParts(m) ==
    LET Test(i) == IsPdfPart(m[i]) IN SelectSeq(Range(Len(m)), Test)

\* The temporary file of part i of message mi.
TempFile(mi, i) == <<mi, i>>

\* Lines 255-277.  failTemp = k > 0: the write to the k-th temporary file
\* raises (the file exists, its name is not yet in pdf_paths); mergerRaises
\* is passed on to merge_pdfs.  Gives the
\* temporary files created, those left after the finally clause, the
\* merge_pdfs invocation and whether an exception leaves the block.
MaterialiseAndMerge(m, mi, marker, failTemp, mergerRaises) ==
    LET src == PdfSources(m)
        all_paths == [k \in 1..Len(src) |-> TempFile(mi, src[k])]
        all_names == [k \in 1..Len(src) |-> m[src[k]].filename]
    IN  IF Len(PdfAttachments(m)) > 1
        THEN IF failTemp \in 1..Len(src)
             THEN LET pdf_paths == SubSeq(all_paths, 1, failTemp - 1)
                      created == {all_paths[k] : k \in 1..failTemp}
                  IN  [created |-> created,
                       left |-> created \ {pdf_paths[k] : k \in 1..Len(pdf_paths)},
                       call |-> NoCall, raises |-> TRUE]
             ELSE [created |-> {all_paths[k] : k \in 1..Len(src)},
                   left |-> {},
                   call |-> merge_pdfs(all_paths, all_names, marker, mergerRaises),
                   raises |-> FALSE]
        ELSE [created |-> {}, left |-> {}, call |-> NoCall, raises |-> FALSE]

\* What can go wrong in that block for message m: which temporary write
\* raises (0 for none), and, when merge_pdfs gets as far as the merger,
\* whether the merger raises.
TempFailures(m) ==
    IF Len(PdfAttachments(m)) > 1 THEN 0..Len(PdfSources(m)) ELSE {0}

MergeFailures(m, marker, failTemp) ==
    LET src == PdfSources(m)
        names == [k \in 1..Len(src) |-> m[src[k]].filename]
    IN  IF Len(PdfAttachments(m)) > 1 /\ failTemp = 0
           /\ ~SkipsMerging(src, names, marker)
        THEN BOOLEAN ELSE {FALSE}

\* Lines 279-296: the PDF attachments of the outbound message.  parts are the
\* positions of the inbound parts whose bytes the attachment holds.
Attachments(m, call) ==
    IF PdfAttachments(m) # <<>>
    THEN IF call.merged
         THEN << [merged |-> TRUE, filename |-> call.output_filename,
                  parts |-> [k \in 1..Len(call.pdf_order) |-> call.pdf_order[k][2]]] >>
         ELSE LET p == PdfParts(m)
              IN  [k \in 1..Len(p) |->
                     [merged |-> FALSE,
                      filename |-> IF m[p[k]].filename # NoName
                                   THEN m[p[k]].filename ELSE AttachmentPdf,
                      parts |-> <<p[k]>>]]
    ELSE <<>>

\* Lines 298-308: the scan for the body, from part i on.
RECURSIVE BodyScan(_, _, _, _)
BodyScan(m, i, body, body_type) ==
    IF i > Len(m)
    THEN [body |-> body, body_type |-> body_type]
    ELSE IF m[i].maintype = "text" /\ m[i].subtype = "plain"
         THEN [body |-> m[i].content, body_type |-> body_type]
         ELSE IF m[i].maintype = "text" /\ m[i].subtype = "html" /\ body = ""
              THEN BodyScan(m, i + 1, m[i].content, "html")
              ELSE BodyScan(m, i + 1, body, body_type)

Body(m) == BodyScan(m, 1, "", "plain")

\* The outcome of one relay_email call.
NoResult ==
    [ran |-> FALSE, msg_index |-> 0, simulate |-> FALSE, candidates |-> <<>>,
     composed |-> FALSE, attachments |-> <<>>, body |-> "", body_type |-> "plain",
     body_attached |-> FALSE, sink_called |-> FALSE, returned |-> "None",
     error |-> "", raised |-> FALSE, temp_created |-> {}, temp_left |-> {}]

\* Lines 352-354: the handler around the whole body of relay_email.
OuterExceptMutPropagates(r) == r

OuterExcept(r) ==
    IF r.raised THEN [r EXCEPT !.raised = FALSE, !.returned = "None"] ELSE r

\* relay_email(email_message) on message mi of the batch.  failTemp and
\* mergerRaises are as above; smtpFails is whether the SMTP submission raises.
relay_email(m, mi, sim, marker, failTemp, mergerRaises, smtpFails) ==
    LET start == [NoResult EXCEPT !.ran = TRUE, !.msg_index = mi,
                                  !.simulate = sim]
        mm == MaterialiseAndMerge(m, mi, marker, failTemp, mergerRaises)
        b == Body(m)
        extracted == [start EXCEPT !.candidates = Candidates(m)]
        merged == [extracted EXCEPT !.temp_created = mm.created,
                                    !.temp_left = mm.left]
        composed == [merged EXCEPT !.composed = TRUE,
                                   !.attachments = Attachments(m, mm.call),
                                   !.body = b.body, !.body_type = b.body_type,
                                   !.body_attached = (b.body # "")]
    IN  IF ExtractionRaises(m, sim)
        THEN [res |-> OuterExcept([start EXCEPT !.raised = TRUE,
                                                !.error = "simulation_write"]),
              call |-> NoCall]
        ELSE IF mm.raises
        THEN [res |-> OuterExcept([merged EXCEPT !.raised = TRUE,
                                                 !.error = "temp_write"]),
              call |-> NoCall]
        ELSE IF sim
        THEN [res |-> [composed EXCEPT !.returned = "msg"], call |-> mm.call]
        ELSE IF smtpFails
        THEN [res |-> [composed EXCEPT !.sink_called = TRUE, !.error = "smtp",
                                       !.returned = "None"],
              call |-> mm.call]
        ELSE [res |-> [composed EXCEPT !.sink_called = TRUE, !.returned = "msg"],
              call |-> mm.call]

\* --------------------------------------------------------------------- run
\* email_message.walk() over a multipart message with the given children:
\* the root, then each child, a message/rfc822 child followed by the message
\* it encloses.
RECURSIVE WalkParts(_)
WalkParts(kids) ==
    IF kids = <<>> THEN <<>>
    ELSE (IF PartTable[Head(kids)].maintype = "message"
          THEN <<Head(kids), InnerPart>> ELSE <<Head(kids)>>) \o WalkParts(Tail(kids))

\* The messages with n children, in walk() order; a message that is not
\* multipart is its text part alone.
MessagesOf(n) ==
    {<<RootPart>> \o WalkParts(kids) : kids \in [1..n -> PartPool]}
    \cup (IF n = 1
          THEN {<<p>> : p \in {q \in PartPool : PartTable[q].maintype = "text"}}
          ELSE {})

\* The batches of several messages that have at most t children together.
RECURSIVE BatchesOf(_)
BatchesOf(t) ==
    {<<>>} \cup
    UNION { { <<m>> \o b : m \in MessagesOf(k), b \in BatchesOf(t - k) } : k \in 1..t }

\* What fetch_emails can return: no message, one message of up to MaxParts
\* children, or several messages of up to MaxBatchParts children together.
Batches ==
    BatchesOf(MaxBatchParts) \cup
    UNION { { <<m>> : m \in MessagesOf(k) } : k \in 1..MaxParts }

Init ==
    /\ simulate \in BOOLEAN
    /\ invoice_string \in Markers
    /\ pc = "fetch"
    /\ emails = <<>>
    /\ idx = 1
    /\ attempted = <<>>
    /\ last = NoResult
    /\ files = {}
    /\ cleaned = FALSE
    /\ merge_call = NoCall

\* run, line 379: emails = self.fetch_emails().
Fetch ==
    /\ pc = "fetch"
    /\ emails' \in Batches
    /\ pc' = "relay"
    /\ UNCHANGED <<simulate, invoice_string, idx, attempted, last, files,
                   cleaned, merge_call>>

\* run, lines 382-383: one iteration of the loop.  An exception that leaves
\* relay_email is caught by run's handler (line 388), which ends run.
\* attempted is the history of the relay_email calls: the message each was
\* given and the error it met ("" for none).
Relay ==
    /\ pc = "relay"
    /\ idx <= Len(emails)
    /\ \E failTemp \in TempFailures(Parts(emails[idx])) :
       \E mergerRaises \in MergeFailures(Parts(emails[idx]), invoice_string, failTemp) :
       \E smtpFails \in (IF simulate THEN {FALSE} ELSE BOOLEAN) :
          LET out == relay_email(Parts(emails[idx]), idx, simulate, invoice_string,
                                 failTemp, mergerRaises, smtpFails)
          IN  /\ last' = out.res
              /\ merge_call' = out.call
              /\ files' = files \cup out.res.temp_left
              /\ attempted' = Append(attempted,
                                      [msg |-> idx, error |-> out.res.error])
              /\ pc' = IF out.res.raised THEN "done" ELSE "relay"
    /\ idx' = idx + 1
    /\ UNCHANGED <<simulate, invoice_string, emails, cleaned>>

\* run, line 386: cleanup_directories() after the loop.  It removes the
\* temp_merged_pdfs directory, not the files tempfile created.
Cleanup ==
    /\ pc = "relay"
    /\ idx > Len(emails)
    /\ cleaned' = TRUE
    /\ pc' = "done"
    /\ UNCHANGED <<simulate, invoice_string, emails, idx, attempted, last,
                   files, merge_call>>

Next == Fetch \/ Relay \/ Cleanup

Spec == Init /\ [][Next]_vars

\* ------------------------------------------------- merge_pdfs called alone
MergeNames == {NameA, NameBUp, NameC, NameInv1, NameInv2, NameTxt}

NameLists == UNION {[1..n -> MergeNames] : n \in 0..MaxNames}

InitMerge ==
    /\ simulate \in BOOLEAN
    /\ invoice_string \in Markers
    /\ pc = "unit"
    /\ emails = <<>>
    /\ idx = 1
    /\ attempted = <<>>
    /\ last = NoResult
    /\ files = {}
    /\ cleaned = FALSE
    /\ merge_call = NoCall

MergeCall ==
    /\ pc = "unit"
    /\ \E names \in NameLists : \E mergerRaises \in BOOLEAN :
          merge_call' = merge_pdfs(Range(Len(names)), names, invoice_string,
                                   mergerRaises)
    /\ pc' = "returned"
    /\ UNCHANGED <<simulate, invoice_string, emails, idx, attempted, last,
                   files, cleaned>>

NextMerge == MergeCall

SpecMerge == InitMerge /\ [][NextMerge]_vars

\* ------------------------------------------------------------------ claims
\* The message of the latest relay_email call, and the PDF candidates of a
\* message as the specification defines them: the positions of the parts that
\* are not multipart, carry a Content-Disposition header and have a filename
\* ending in .pdf, whatever the case.
LastMessage == Parts(emails[last.msg_index])

SpecCandidates(m) ==
    {i \in 1..Len(m) : /\ m[i].maintype # "multipart"
                       /\ m[i].disp
                       /\ endswith(lower(m[i].filename), DotPdf)}

\* The increasing enumeration of a set of positions.
RECURSIVE Ascending(_)
Ascending(S) ==
    IF S = {} THEN <<>>
    ELSE LET lo == CHOOSE x \in S : \A y \in S : x <= y
         IN  <<lo>> \o Ascending(S \ {lo})

\* The filenames of merge_call that contain the configured, non-empty marker.
MarkerMatches ==
    {i \in 1..Len(merge_call.pdf_filenames) :
        invoice_string # <<>> /\ contains(invoice_string, merge_call.pdf_filenames[i])}

\* The filename merge_pdfs was given for a path.
NameOfPath(path) ==
    merge_call.pdf_filenames[
        CHOOSE i \in 1..Len(merge_call.pdf_paths) : merge_call.pdf_paths[i] = path]

\* pdf_order holds every path merge_pdfs was given, each once.
OrdersEveryPath ==
    /\ Len(merge_call.pdf_order) = Len(merge_call.pdf_paths)
    /\ \A i \in 1..Len(merge_call.pdf_paths) :
          \E k \in 1..Len(merge_call.pdf_order) :
              merge_call.pdf_order[k] = merge_call.pdf_paths[i]

\* pdf_order is ascending by filename from place `from` on.
AscendingFrom(from) ==
    \A k \in from..(Len(merge_call.pdf_order) - 1) :
        ~StrLess(NameOfPath(merge_call.pdf_order[k + 1]),
                 NameOfPath(merge_call.pdf_order[k]))

\* C1: for every inbound message relay_email composes an outbound message
\* for, the outbound message has one PDF attachment if a merge occurred and
\* otherwise as many as there are PDF candidates in the inbound message.
C1_AttachmentCount ==
    (last.ran /\ last.composed) =>
        Len(last.attachments) =
            IF merge_call.merged THEN 1
            ELSE Cardinality(SpecCandidates(LastMessage))

\* C2: for every message with both a text/plain and a text/html part, in
\* whichever order, the body of the outbound message is the content of the
\* first text/plain part and is marked as plain text.
C2_PlainBodyWins ==
    LET m == LastMessage
        plain == {i \in 1..Len(m) : m[i].maintype = "text" /\ m[i].subtype = "plain"}
        html == {i \in 1..Len(m) : m[i].maintype = "text" /\ m[i].subtype = "html"}
    IN  (last.ran /\ last.composed /\ plain # {} /\ html # {}) =>
            /\ last.body = m[Ascending(plain)[1]].content
            /\ last.body_type = "plain"

\* C3: when merge_pdfs is given at least 2 candidates of which exactly one
\* has a filename containing the non-empty invoice marker, it hands that
\* candidate to the merger first and the others after it in ascending
\* filename order, and (the merger not failing) it returns the merged PDF
\* under the invoice candidate's filename.
C3_SingleInvoiceFirst ==
    (/\ merge_call.invoked
     /\ Len(merge_call.pdf_paths) >= 2
     /\ Cardinality(MarkerMatches) = 1) =>
        LET inv == CHOOSE i \in MarkerMatches : TRUE
        IN  /\ merge_call.merger_created
            /\ OrdersEveryPath
            /\ merge_call.pdf_order[1] = merge_call.pdf_paths[inv]
            /\ AscendingFrom(2)
            /\ merge_call.merged = ~merge_call.error
            /\ merge_call.merged =>
                   merge_call.output_filename = merge_call.pdf_filenames[inv]

\* A merge of three or more candidates whose single invoice is not the first
\* one given and whose merge order is neither the given nor the sorted one.
C3_Witness ==
    /\ merge_call.merged
    /\ Len(merge_call.pdf_paths) >= 3
    /\ Cardinality(MarkerMatches) = 1
    /\ merge_call.pdf_order[1] # merge_call.pdf_paths[1]
    /\ merge_call.pdf_order # merge_call.pdf_paths
    /\ ~AscendingFrom(1)

\* C4 as stated: when merge_pdfs is given at least 2 candidates of which
\* none or at least 2 match the invoice marker, the merge order is the whole
\* list sorted ascending by filename and the output filename is the smallest
\* filename.
C4_SortedUnlessOneInvoice ==
    (/\ merge_call.invoked
     /\ Len(merge_call.pdf_paths) >= 2
     /\ Cardinality(MarkerMatches) # 1
     /\ ~merge_call.error) =>
        /\ merge_call.merged
        /\ OrdersEveryPath
        /\ AscendingFrom(1)
        /\ merge_call.output_filename = NameOfPath(merge_call.pdf_order[1])

\* C4 as amended: when merge_pdfs is given at least 2 candidates of which
\* none matches the invoice marker (or no marker is configured), the merge
\* order is the whole list sorted ascending by filename and the output
\* filename is the smallest filename.
C4_SortedWhenNoInvoice ==
    (/\ merge_call.invoked
     /\ Len(merge_call.pdf_paths) >= 2
     /\ MarkerMatches = {}) =>
        /\ merge_call.merger_created
        /\ OrdersEveryPath
        /\ AscendingFrom(1)
        /\ merge_call.merged = ~merge_call.error
        /\ merge_call.merged =>
              /\ merge_call.output_filename = NameOfPath(merge_call.pdf_order[1])
              /\ \A i \in 1..Len(merge_call.pdf_filenames) :
                    ~StrLess(merge_call.pdf_filenames[i], merge_call.output_filename)

\* A merge without invoice match whose order differs from the given one.
C4_Witness ==
    /\ merge_call.merged
    /\ Len(merge_call.pdf_paths) >= 2
    /\ MarkerMatches = {}
    /\ merge_call.pdf_order # merge_call.pdf_paths

\* C5: when the invoice marker is non-empty and more than one filename given
\* to merge_pdfs contains it, merge_pdfs returns None without creating a
\* merger, and the outbound message carries no merged PDF but each of those
\* PDFs on its own under its own filename.
C5_AmbiguousInvoiceNoMerge ==
    (last.ran /\ merge_call.invoked /\ Cardinality(MarkerMatches) > 1) =>
        /\ ~merge_call.merger_created
        /\ ~merge_call.merged
        /\ last.composed
        /\ \A j \in 1..Len(last.attachments) : ~last.attachments[j].merged
        /\ \A k \in 1..Len(merge_call.pdf_paths) :
              \E j \in 1..Len(last.attachments) :
                  last.attachments[j] =
                      [merged |-> FALSE,
                       filename |-> merge_call.pdf_filenames[k],
                       parts |-> <<merge_call.pdf_paths[k][2]>>]

\* A message relayed with two different invoice PDFs.
C5_Witness ==
    /\ last.ran
    /\ merge_call.invoked
    /\ Cardinality(MarkerMatches) > 1
    /\ \E i, j \in MarkerMatches :
          merge_call.pdf_filenames[i] # merge_call.pdf_filenames[j]
    /\ Len(last.attachments) >= 2

\* C6: if the merger raises for a message, relay_email still composes the
\* outbound message, with every PDF candidate of the inbound message
\* attached on its own under its original filename, and hands it to the
\* sink (returns it, in simulation mode).
C6_MergeFailureFallsBack ==
    (last.ran /\ merge_call.error) =>
        LET m == LastMessage
            c == Ascending(SpecCandidates(m))
        IN  /\ last.composed
            /\ last.attachments =
                   [k \in 1..Len(c) |->
                       [merged |-> FALSE, filename |-> m[c[k]].filename,
                        parts |-> <<c[k]>>]]
            /\ (last.simulate \/ last.sink_called)

\* C7: no temporary file that relay_email created is left when it returns.
C7_TempFilesDeleted ==
    last.ran => last.temp_created \cap files = {}

\* C8: run calls relay_email on the messages of the batch once each and in
\* batch order, no call raises, and run ends only after the last message,
\* with cleanup_directories done.
C8_EveryMessageAttempted ==
    /\ Len(attempted) <= Len(emails)
    /\ \A k \in 1..Len(attempted) : attempted[k].msg = k
    /\ last.ran => ~last.raised
    /\ pc = "relay" => idx = Len(attempted) + 1
    /\ pc = "done" => (Len(attempted) = Len(emails) /\ cleaned)

\* A finished run over several messages in which a message before the last
\* one failed to be composed or to be sent.
C8_Witness ==
    /\ pc = "done"
    /\ cleaned
    /\ Len(emails) >= 2
    /\ \E k \in 1..(Len(attempted) - 1) : attempted[k].error # ""

\* C9: if a qualifying PDF part yields no bytes when decoded, then (no
\* temporary file failing to be written) relay_email still composes and
\* passes on the outbound message, in normal and in simulation mode, and
\* that part is not attached.
C9_DecodeFailureSkipsPart ==
    LET m == LastMessage
        failed == {i \in SpecCandidates(m) : get_payload(m[i]).none}
    IN  (last.ran /\ failed # {} /\ last.error # "temp_write") =>
            /\ last.composed
            /\ last.error \in {"", "smtp"}
            /\ \A j \in 1..Len(last.attachments) : \A i \in failed :
                  \A k \in 1..Len(last.attachments[j].parts) :
                      last.attachments[j].parts[k] # i

\* C10: whenever relay_email invokes merge_pdfs, the sources it passes are
\* the PDF candidates of the message, one temporary file each, with the
\* candidates' filenames, in extraction order.
C10_MergeSourcesAreCandidates ==
    (last.ran /\ merge_call.invoked) =>
        LET m == LastMessage
            c == Ascending(SpecCandidates(m))
        IN  /\ Len(merge_call.pdf_paths) = Len(c)
            /\ \A k \in 1..Len(c) :
                  /\ merge_call.pdf_paths[k] = TempFile(last.msg_index, c[k])
                  /\ merge_call.pdf_filenames[k] = m[c[k]].filename

====
